---------------------------- MODULE Spec2Model ----------------------------
(***************************************************************************)
(* A model of oddeven.py: the global rate limiter (rate_limited_request),  *)
(* the retrying request executor (safe_request), event discovery, bet      *)
(* placement, the monitor tasks run by the thread pool, and the poll loop. *)
(*                                                                         *)
(* Threads.  Thread 0 is the main loop; the monitor task of reference id r *)
(* is thread r (the pool's worker threads are interchangeable, so a        *)
(* running task is identified by the reference id it monitors).            *)
(*                                                                         *)
(* Time.  One tick is one second and every step happens at a whole tick.   *)
(* The model keeps no absolute clock: it keeps, for each thread, the time  *)
(* its current time.sleep still has to last (timer) and, for the limiter,  *)
(* the time elapsed since LAST_CALL_TIME (since_last_call).  Both saturate *)
(* (at SleepCap and at MIN_INTERVAL): the code compares elapsed time with  *)
(* MIN_INTERVAL only.  A thread may always be slower than the code asks:   *)
(* Tick is enabled in every state.                                         *)
(***************************************************************************)
EXTENDS Integers, Sequences, FiniteSets, TLC

\* ------------------------------------------------------------- bounds
MaxRefs == 2          \* reference ids (uuid4 values) place_bet can generate
PoolRefs == 6         \* reference ids in all: enough to saturate the pool
MaxChecks == 2        \* stands for monitor_bet's parameter max_checks (60)
MaxFeed == 2          \* events in one answer of the feed's list endpoint
MaxCycles == 1        \* poll cycles of the main loop beside the monitors
LoopCycles == 2       \* poll cycles of the main loop taken alone
MaxFaultyCalls == 1   \* rate_limited_request calls whose attempts may fail
MaxPending == 1       \* submissions the trading API answers PENDING_ACCEPTANCE
SleepCap == 2         \* saturation of a sleep's remaining time, in ticks

\* ------------------------------------------------- program constants
MAIN == 0                 \* the thread running main()
NoThread == -1            \* RATE_LIMIT_LOCK is free
MIN_INTERVAL == 1         \* MIN_INTERVAL = 1.0
ATTEMPTS == 8             \* for attempt in range(8)
INITIAL_BACKOFF == 5      \* backoff = 5
max_backoff == 600        \* max_backoff = 600
THRESHOLD == 184          \* 1.84, prices in hundredths
max_workers == 5          \* ThreadPoolExecutor(max_workers=5)

\* random.uniform(0.05, 0.2), rounded up to whole ticks
LimiterJitter == {1}
\* random.uniform(1, 5)
RetryJitter == {1, 5}
\* base_interval + random.uniform(5, 15)
MonitorSleeps == 50..60
\* time.sleep(300)
CYCLE_SLEEP == 300

terminal_states ==
  {"ACCEPTED", "REJECTED", "WIN", "LOSS", "PUSH",
   "MARKET_SUSPENDED", "INSUFFICIENT_FUNDS", "CANCELLED"}

Refs == 1..PoolRefs
Threads == {MAIN} \cup Refs

Min(a, b) == IF a < b THEN a ELSE b

\* ------------------------------------------------------ the outside
\* An event identifier of the feed is an integer or a string; <<k, n>> is
\* the identifier of kind k whose decimal text is n.
EventIds == {<<"int", 1>>, <<"str", 2>>}
\* str(event_id): the key under which the store knows the event.
Str(id) == id[2]

Prices == {184, 185}
Market(p, q) == <<[outcome |-> "odd", price |-> p], [outcome |-> "even", price |-> q]>>
\* What get_odd_even_market can read from the per-event endpoint: no market
\* (an empty list stands for None: both are falsy), or two selections.
Markets == {<< >>} \cup {Market(p, q) : p \in Prices, q \in Prices}

FeedEvent == [id : EventIds, live : BOOLEAN]
SeqsUpTo(S, n) == UNION {[1..k -> S] : k \in 0..n}
\* The events of all competitions of one answer of the list endpoint.
FeedLists ==
  {f \in SeqsUpTo(FeedEvent, MaxFeed) :
     \A i, j \in DOMAIN f : i < j => Str(f[i].id) < Str(f[j].id)}

PlaceStatuses == {"PENDING_ACCEPTANCE", "ACCEPTED"}
\* A status answer: a status, or a JSON object without the "status" key.
StatusAnswers == {"PENDING", "WIN", "MALFORMED"}

NoBody == [events |-> << >>, selections |-> << >>, referenceId |-> 0, status |-> ""]
NoResult == [ok |-> FALSE, body |-> NoBody]

VARIABLES
  pc,               \* [Threads -> control point]
  timer,            \* [Threads -> time the thread's sleep still lasts]
  req,              \* [Threads -> kind of the request the thread is making]
  RATE_LIMIT_LOCK,  \* the thread holding the lock, or NoThread
  since_last_call,  \* time.time() - LAST_CALL_TIME, saturated at MIN_INTERVAL
  attempt,          \* [Threads -> safe_request's loop variable]
  backoff,          \* [Threads -> safe_request's backoff]
  result,           \* [Threads -> what the last request returned]
  faulty_calls,     \* calls that met a failing attempt (bounded)
  cycles_left,      \* poll cycles the main loop may still start (bounded)
  observing,        \* whether the waits of safe_request are being measured
  \* shared program state
  active_bets,      \* reference id -> [event, side]
  queue,            \* executor: submitted tasks not yet started
  running,          \* executor: tasks being run by a worker
  events_ref,       \* keys of the "events" collection of the store
  \* main()
  cycle, existing_event_ids, feed, ev_i, events, todo,
  event_info, sel_i, bets_placed, bet_payload, next_ref,
  \* monitor_bet
  checks,           \* [Refs -> the loop variable attempt of monitor_bet]
  \* history (observations only, never read by the program)
  slots,            \* [Threads -> limiter grants taken in the current call]
  sent,             \* [Threads -> HTTP attempts started in the current call]
  n429,             \* [Threads -> attempts of the current call answered 429]
  waited,           \* [Threads -> seconds of sleep asked for in safe_request]
  last_grant,       \* the latest grant: time since the one before, slept or not
  since_last_send,  \* time since the latest HTTP attempt started (saturated)
  last_send,        \* the latest HTTP attempt: time since the one before, retry
  discovered,       \* events discovery returned in this cycle
  placed_events,    \* events place_bet was invoked for in this cycle
  pb_results,       \* submissions of the current place_bet call: side, ok, body
  pb_saves,         \* save_event_id calls of the current place_bet call
  n_pending,        \* placement responses with status PENDING_ACCEPTANCE so far
  n_submitted,      \* executor.submit calls so far
  n_entries,        \* entries added to active_bets so far
  responded,        \* store keys of the events a submission got a response for
  failed_events,    \* store keys of the events a submission failed for
  queries,          \* [Refs -> status queries made by the monitor]
  failed_queries,   \* [Refs -> those that returned no result]
  terminal_at,      \* [Refs -> the query first answered by a terminal status]
  pops,             \* [Refs -> active_bets.pop calls of the monitor]
  ending            \* [Refs -> how the monitor ended: status, "timeout", "crash"]

reqvars == <<pc, timer, req, RATE_LIMIT_LOCK, since_last_call, attempt, backoff,
             result, faulty_calls>>
boundvars == <<cycles_left, observing>>
sharedvars == <<active_bets, queue, running, events_ref>>
mainvars == <<cycle, existing_event_ids, feed, ev_i, events, todo,
              event_info, sel_i, bets_placed, bet_payload, next_ref>>
callhist == <<slots, sent, n429, waited>>
sendhist == <<since_last_send, last_send>>
cyclehist == <<discovered, placed_events>>
placehist == <<pb_results, pb_saves, n_pending, n_submitted, n_entries, responded,
               failed_events>>
monhist == <<queries, failed_queries, terminal_at, pops, ending>>
histvars == <<callhist, last_grant, sendhist, cyclehist, placehist, monhist>>
vars == <<reqvars, boundvars, sharedvars, mainvars, checks, histvars>>

NoEvent == [event_id |-> <<"int", 0>>, selections |-> << >>]
NoPayload == [eventId |-> 0, side |-> "", price |-> 0, referenceId |-> 0]

Start(cycles, measured) ==
  /\ cycles_left = cycles
  /\ observing = measured
  /\ pc = [t \in Threads |-> IF t = MAIN THEN "m_start" ELSE "unborn"]
  /\ timer = [t \in Threads |-> 0]
  /\ req = [t \in Threads |-> "none"]
  /\ RATE_LIMIT_LOCK = NoThread
  /\ since_last_call = MIN_INTERVAL      \* LAST_CALL_TIME = 0, long ago
  /\ attempt = [t \in Threads |-> 0]
  /\ backoff = [t \in Threads |-> INITIAL_BACKOFF]
  /\ result = [t \in Threads |-> NoResult]
  /\ faulty_calls = 0
  /\ active_bets = << >>
  /\ queue = << >>
  /\ running = {}
  /\ events_ref \in SUBSET {Str(id) : id \in EventIds}
  /\ cycle = 0
  /\ existing_event_ids = {}
  /\ feed = << >>
  /\ ev_i = 1
  /\ events = << >>
  /\ todo = << >>
  /\ event_info = NoEvent
  /\ sel_i = 1
  /\ bets_placed = << >>
  /\ bet_payload = NoPayload
  /\ next_ref = 1
  /\ checks = [r \in Refs |-> 0]
  /\ slots = [t \in Threads |-> 0]
  /\ sent = [t \in Threads |-> 0]
  /\ n429 = [t \in Threads |-> 0]
  /\ waited = [t \in Threads |-> 0]
  /\ last_grant = [gap |-> MIN_INTERVAL, slept |-> FALSE]
  /\ since_last_send = MIN_INTERVAL
  /\ last_send = [gap |-> MIN_INTERVAL, retry |-> FALSE]
  /\ discovered = {}
  /\ placed_events = {}
  /\ pb_results = << >>
  /\ pb_saves = 0
  /\ n_pending = 0
  /\ n_submitted = 0
  /\ n_entries = 0
  /\ responded = {}
  /\ failed_events = {}
  /\ terminal_at = [r \in Refs |-> 0]
  /\ queries = [r \in Refs |-> 0]
  /\ failed_queries = [r \in Refs |-> 0]
  /\ pops = [r \in Refs |-> 0]
  /\ ending = [r \in Refs |-> ""]

\* The program starts.
Init == Start(MaxCycles, FALSE)

\* ------------------------------------------------------------ helpers
Sleep(t, d) == timer' = [timer EXCEPT ![t] = Min(d, SleepCap)]

\* A call of rate_limited_request(method, url): the thread goes for the lock.
StartRequest(t, kind) ==
  /\ req' = [req EXCEPT ![t] = kind]
  /\ pc' = [pc EXCEPT ![t] = "rl_wait"]

\* The caller has read the result of its request: the frame of the call is
\* gone (its locals and the observations made of it are cleared).
Consume(t) ==
  /\ result' = [result EXCEPT ![t] = NoResult]
  /\ attempt' = [attempt EXCEPT ![t] = 0]
  /\ backoff' = [backoff EXCEPT ![t] = INITIAL_BACKOFF]
  /\ slots' = [slots EXCEPT ![t] = 0]
  /\ sent' = [sent EXCEPT ![t] = 0]
  /\ n429' = [n429 EXCEPT ![t] = 0]
  /\ waited' = [waited EXCEPT ![t] = 0]

Returned(t, kind) == pc[t] = "ret" /\ req[t] = kind

\* ------------------------------------------------- rate_limited_request
\* A limiter whose lock excludes nobody.
NoLock == TRUE

\* with RATE_LIMIT_LOCK: the lock can be taken.
LockFree == RATE_LIMIT_LOCK = NoThread

\* The argument of time.sleep at line 60, or 0 when the branch is not taken.
LimiterWait(elapsed, jitter) ==
  IF elapsed < MIN_INTERVAL THEN MIN_INTERVAL - elapsed + jitter ELSE 0

\* A with block that keeps the lock when it is left.
StillHeld(t) == t

\* Line 62 is outside the with block: the holder of the lock after thread t
\* has left it.
Released(t) == NoThread

\* Lines 61-62 and 69-70: LAST_CALL_TIME = time.time(), the with block is
\* left and safe_request is entered.
Grant(t, slept) ==
  /\ since_last_call' = 0
  /\ RATE_LIMIT_LOCK' = Released(t)
  /\ attempt' = [attempt EXCEPT ![t] = 0]
  /\ backoff' = [backoff EXCEPT ![t] = INITIAL_BACKOFF]
  /\ pc' = [pc EXCEPT ![t] = "sr_send"]
  /\ slots' = [slots EXCEPT ![t] = @ + 1]
  /\ last_grant' = [gap |-> since_last_call, slept |-> slept]

\* Lines 56-60: take the lock and read the clock; start the sleep if one is
\* due, and go on to line 61 if none is.
RLAcquire(t) ==
  /\ pc[t] = "rl_wait"
  /\ LockFree
  /\ \E j \in LimiterJitter :
       LET d == LimiterWait(since_last_call, j) IN
         IF d > 0
           THEN /\ RATE_LIMIT_LOCK' = t
                /\ Sleep(t, d)
                /\ pc' = [pc EXCEPT ![t] = "rl_sleep"]
                /\ UNCHANGED <<since_last_call, attempt, backoff, slots, last_grant>>
           ELSE Grant(t, FALSE) /\ UNCHANGED timer
  /\ UNCHANGED <<req, result, faulty_calls, boundvars, sharedvars, mainvars, checks>>
  /\ UNCHANGED <<sent, n429, waited, sendhist, cyclehist, placehist, monhist>>

\* The sleep of line 60 is over.
RLRecord(t) ==
  /\ pc[t] = "rl_sleep"
  /\ timer[t] = 0
  /\ Grant(t, TRUE)
  /\ UNCHANGED <<timer, req, result, faulty_calls, boundvars, sharedvars, mainvars,
                 checks>>
  /\ UNCHANGED <<sent, n429, waited, sendhist, cyclehist, placehist, monhist>>

\* --------------------------------------------------------- safe_request
\* Line 74: requests.request makes an HTTP attempt.  The attempt and its
\* answer are one step: the time the endpoint takes is time that passes
\* before the thread's next step.
Send(t) ==
  /\ sent' = [sent EXCEPT ![t] = @ + 1]
  /\ last_send' = [gap |-> since_last_send, retry |-> attempt[t] > 0]
  /\ since_last_send' = 0

\* What response.json() can hold after a successful attempt of the request.
Replies(t) ==
  CASE req[t] = "list" -> {[NoBody EXCEPT !.events = f] : f \in FeedLists}
    [] req[t] = "market" -> {[NoBody EXCEPT !.selections = m] : m \in Markets}
    [] req[t] = "place" ->
         {[NoBody EXCEPT !.referenceId = bet_payload.referenceId, !.status = s] :
            s \in IF Cardinality({r \in Refs : pc[r] # "unborn"}) < MaxPending
                    THEN PlaceStatuses ELSE PlaceStatuses \ {"PENDING_ACCEPTANCE"}}
    [] req[t] = "status" -> {[NoBody EXCEPT !.status = s] : s \in StatusAnswers}
    [] OTHER -> {}

\* A backoff that never grows.
ConstantBackoff(b) == b

\* A backoff without its cap.
Uncapped(b) == b * 2

\* Line 79 and line 88.
NextBackoff(b) == Min(b * 2, max_backoff)

\* Lines 74-83: the attempt succeeds and the response is returned.
SRSuccess(t) ==
  /\ pc[t] = "sr_send"
  /\ Send(t)
  /\ \E b \in Replies(t) : result' = [result EXCEPT ![t] = [ok |-> TRUE, body |-> b]]
  /\ pc' = [pc EXCEPT ![t] = "ret"]
  /\ UNCHANGED <<timer, req, RATE_LIMIT_LOCK, since_last_call, attempt, backoff,
                 faulty_calls, boundvars, sharedvars, mainvars, checks>>
  /\ UNCHANGED <<slots, n429, waited, last_grant, cyclehist, placehist, monhist>>

\* Lines 74-78 (status 429) and 74, 82, 85-87 (RequestException): the attempt
\* fails and the sleep starts.
SRFailure(t) ==
  /\ pc[t] = "sr_send"
  /\ attempt[t] > 0 \/ faulty_calls < MaxFaultyCalls
  /\ Send(t)
  /\ faulty_calls' = IF attempt[t] = 0 THEN faulty_calls + 1 ELSE faulty_calls
  /\ \E j \in RetryJitter :
       /\ Sleep(t, backoff[t] + j)
       /\ waited' = [waited EXCEPT ![t] = IF observing THEN @ + backoff[t] + j ELSE @]
  /\ \E is429 \in BOOLEAN :
       n429' = [n429 EXCEPT ![t] = IF observing /\ is429 THEN @ + 1 ELSE @]
  /\ pc' = [pc EXCEPT ![t] = "sr_backoff"]
  /\ UNCHANGED <<req, RATE_LIMIT_LOCK, since_last_call, attempt, backoff, result>>
  /\ UNCHANGED <<boundvars, sharedvars, mainvars, checks>>
  /\ UNCHANGED <<slots, last_grant, cyclehist, placehist, monhist>>

\* A loop that makes one attempt more.
OneAttemptMore(a) == a < ATTEMPTS

\* for attempt in range(8): another attempt is left after this one.
AttemptsLeft(a) == a + 1 < ATTEMPTS

\* Lines 79-80 and 88, then the loop header or lines 90-91.
SRBackoffDone(t) ==
  /\ pc[t] = "sr_backoff"
  /\ timer[t] = 0
  /\ backoff' = [backoff EXCEPT ![t] = NextBackoff(@)]
  /\ attempt' = [attempt EXCEPT ![t] = @ + 1]
  /\ IF AttemptsLeft(attempt[t])
       THEN /\ pc' = [pc EXCEPT ![t] = "sr_send"]
            /\ UNCHANGED result
       ELSE /\ pc' = [pc EXCEPT ![t] = "ret"]
            /\ result' = [result EXCEPT ![t] = NoResult]
  /\ UNCHANGED <<timer, req, RATE_LIMIT_LOCK, since_last_call, faulty_calls>>
  /\ UNCHANGED <<boundvars, sharedvars, mainvars, checks, histvars>>

\* ------------------------------------------------------------- time
Tick ==
  /\ timer' = [t \in Threads |-> IF timer[t] > 0 THEN timer[t] - 1 ELSE 0]
  /\ since_last_call' = Min(since_last_call + 1, MIN_INTERVAL)
  /\ since_last_send' = Min(since_last_send + 1, MIN_INTERVAL)
  /\ UNCHANGED <<pc, req, RATE_LIMIT_LOCK, attempt, backoff, result, faulty_calls>>
  /\ UNCHANGED <<boundvars, sharedvars, mainvars, checks>>
  /\ UNCHANGED <<callhist, last_grant, last_send, cyclehist, placehist, monhist>>

\* ---------------------------------------------------------- monitor_bet
Pop(bets, r) == [x \in DOMAIN bets \ {r} |-> bets[x]]
Put(bets, r, info) == [x \in DOMAIN bets \cup {r} |-> IF x = r THEN info ELSE bets[x]]

\* A pool that always finds a worker.
AlwaysFree(n) == TRUE

\* ThreadPoolExecutor(max_workers=5): with n tasks running, a worker is free.
WorkerFree(n) == n < max_workers

\* The pool starts the oldest queued task when a worker is free; the task
\* enters monitor_bet and makes its first check_bet_status call (line 216).
MonStart(r) ==
  /\ pc[r] = "queued"
  /\ queue # << >> /\ Head(queue) = r
  /\ WorkerFree(Cardinality(running))
  /\ queue' = Tail(queue)
  /\ running' = running \cup {r}
  /\ checks' = [checks EXCEPT ![r] = 0]
  /\ StartRequest(r, "status")
  /\ UNCHANGED <<timer, RATE_LIMIT_LOCK, since_last_call, attempt, backoff, result,
                 faulty_calls, boundvars, active_bets, events_ref, mainvars,
                 histvars>>

\* A terminal set without WIN.
IsTerminalButWin(s) == s \in terminal_states \ {"WIN"}

\* Line 218: status['status'] in terminal_states.
IsTerminal(s) == s \in terminal_states

\* A loop in which a failed query costs nothing.
FreeFailedCheck(c, got) == IF got THEN c + 1 ELSE c

\* for attempt in range(max_checks): the loop variable after a check that
\* did not end the task, whether it returned a status (got) or None.
NextCheck(c, got) == c + 1

\* for attempt in range(max_checks): the loop goes on.
ChecksLeft(c) == c < MaxChecks

\* The task ends: the worker is free again.
MonEnd(r, how, popped) ==
  /\ pc' = [pc EXCEPT ![r] = IF how = "crash" THEN "crashed" ELSE "done"]
  /\ running' = running \ {r}
  /\ ending' = [ending EXCEPT ![r] = how]
  /\ active_bets' = IF popped THEN Pop(active_bets, r) ELSE active_bets
  /\ pops' = [pops EXCEPT ![r] = IF popped THEN @ + 1 ELSE @]
  /\ req' = [req EXCEPT ![r] = "none"]

\* Lines 204-230: check_bet_status returns and monitor_bet reads the status.
\* A JSON object without "status" raises KeyError at line 218: the exception
\* ends the task (the pool keeps it in the task's future).
MonReply(r) ==
  /\ r \in Refs
  /\ Returned(r, "status")
  /\ Consume(r)
  /\ LET got == result[r].ok
         status == result[r].body.status
     IN /\ queries' = [queries EXCEPT ![r] = @ + 1]
        /\ failed_queries' = [failed_queries EXCEPT ![r] = IF got THEN @ ELSE @ + 1]
        /\ terminal_at' = [terminal_at EXCEPT ![r] =
             IF @ = 0 /\ got /\ status \in terminal_states THEN queries[r] + 1 ELSE @]
        /\ IF got /\ status = "MALFORMED"
             THEN MonEnd(r, "crash", FALSE) /\ UNCHANGED <<timer, checks>>
           ELSE IF got /\ IsTerminal(status)
             THEN MonEnd(r, status, TRUE) /\ UNCHANGED <<timer, checks>>
           ELSE /\ \E d \in MonitorSleeps : Sleep(r, d)
                /\ checks' = [checks EXCEPT ![r] = NextCheck(@, got)]
                /\ pc' = [pc EXCEPT ![r] = "mon_sleep"]
                /\ UNCHANGED <<req, running, ending, active_bets, pops>>
  /\ UNCHANGED <<RATE_LIMIT_LOCK, since_last_call, faulty_calls, boundvars, queue,
                 events_ref, mainvars, last_grant, sendhist, cyclehist, placehist>>

\* Lines 229-233: the sleep is over; the next check, or the loop is exhausted.
MonSleepDone(r) ==
  /\ r \in Refs
  /\ pc[r] = "mon_sleep"
  /\ timer[r] = 0
  /\ IF ChecksLeft(checks[r])
       THEN /\ StartRequest(r, "status")
            /\ UNCHANGED <<running, ending, active_bets, pops>>
       ELSE MonEnd(r, "timeout", TRUE)
  /\ UNCHANGED <<timer, RATE_LIMIT_LOCK, since_last_call, attempt, backoff, result,
                 faulty_calls, boundvars, queue, events_ref, mainvars, checks>>
  /\ UNCHANGED <<callhist, last_grant, sendhist, cyclehist, placehist, queries, failed_queries,
                 terminal_at>>

\* ------------------------------------------------------------- main()
\* load_existing_event_ids(): the keys of the snapshot.
LoadExisting(store) == store

\* Line 242 and line 115: a cycle starts; the seen-set is read and
\* get_all_live_basketball_events asks the feed for the live events.
MainStartCycle ==
  /\ pc[MAIN] = "m_start"
  /\ cycles_left > 0
  /\ cycles_left' = cycles_left - 1
  /\ cycle' = cycle + 1
  /\ existing_event_ids' = LoadExisting(events_ref)
  /\ discovered' = {}
  /\ placed_events' = {}
  /\ StartRequest(MAIN, "list")
  /\ UNCHANGED <<timer, RATE_LIMIT_LOCK, since_last_call, attempt, backoff, result,
                 faulty_calls, observing, sharedvars, feed, ev_i, events, todo,
                 event_info, sel_i, bets_placed, bet_payload, next_ref, checks>>
  /\ UNCHANGED <<callhist, last_grant, sendhist, placehist, monhist>>

\* Lines 116-126: no response, or no competitions, gives no event to scan.
MainListReply ==
  /\ Returned(MAIN, "list")
  /\ feed' = IF result[MAIN].ok THEN result[MAIN].body.events ELSE << >>
  /\ ev_i' = 1
  /\ pc' = [pc EXCEPT ![MAIN] = "m_scan"]
  /\ req' = [req EXCEPT ![MAIN] = "none"]
  /\ Consume(MAIN)
  /\ UNCHANGED <<timer, RATE_LIMIT_LOCK, since_last_call, faulty_calls, boundvars,
                 sharedvars, cycle, existing_event_ids, events, todo, event_info,
                 sel_i, bets_placed, bet_payload, next_ref, checks>>
  /\ UNCHANGED <<last_grant, sendhist, cyclehist, placehist, monhist>>

\* A cycle that filters nothing out.
AllEvents(evs, existing) == evs

\* Line 246: the events whose identifier is not in the seen-set.
NewEvents(evs, existing) ==
  LET IsNew(e) == Str(e.event_id) \notin existing IN SelectSeq(evs, IsNew)

\* Lines 127-129, and lines 141 and 245-247 when the scan is over (the
\* locals of get_all_live_basketball_events are gone then).
MainScan ==
  /\ pc[MAIN] = "m_scan"
  /\ IF ev_i > Len(feed)
       THEN /\ todo' = NewEvents(events, existing_event_ids)
            /\ discovered' = {events[i].event_id : i \in DOMAIN events}
            /\ events' = << >>
            /\ feed' = << >>
            /\ ev_i' = 1
            /\ pc' = [pc EXCEPT ![MAIN] = "m_place"]
            /\ UNCHANGED req
       ELSE IF feed[ev_i].live
         THEN /\ StartRequest(MAIN, "market")
              /\ UNCHANGED <<todo, ev_i, events, feed, discovered>>
         ELSE /\ ev_i' = ev_i + 1
              /\ UNCHANGED <<todo, pc, req, events, feed, discovered>>
  /\ UNCHANGED <<timer, RATE_LIMIT_LOCK, since_last_call, attempt, backoff, result,
                 faulty_calls, boundvars, sharedvars, cycle, existing_event_ids,
                 event_info, sel_i, bets_placed, bet_payload, next_ref, checks>>
  /\ UNCHANGED <<callhist, last_grant, sendhist, placed_events, placehist, monhist>>

\* A filter that lets the threshold itself through.
AtLeastThreshold(s) == s.price >= THRESHOLD

\* Line 131: float(s['price']) > 1.84.
Qualifies(s) == s.price > THRESHOLD
Filtered(selections) == SelectSeq(selections, Qualifies)
\* Lines 130 and 132: the event is kept.
KeepEvent(selections, filtered) == selections # << >> /\ filtered # << >>

\* Lines 146-155 and 130-138: the market of the event is read and filtered.
MainMarketReply ==
  /\ Returned(MAIN, "market")
  /\ LET selections == IF result[MAIN].ok THEN result[MAIN].body.selections ELSE << >>
         filtered == Filtered(selections)
     IN events' = IF KeepEvent(selections, filtered)
                    THEN Append(events, [event_id |-> feed[ev_i].id,
                                         selections |-> filtered])
                    ELSE events
  /\ ev_i' = ev_i + 1
  /\ pc' = [pc EXCEPT ![MAIN] = "m_scan"]
  /\ req' = [req EXCEPT ![MAIN] = "none"]
  /\ Consume(MAIN)
  /\ UNCHANGED <<timer, RATE_LIMIT_LOCK, since_last_call, faulty_calls, boundvars,
                 sharedvars, cycle, existing_event_ids, feed, todo, event_info,
                 sel_i, bets_placed, bet_payload, next_ref, checks>>
  /\ UNCHANGED <<last_grant, sendhist, cyclehist, placehist, monhist>>

\* Lines 249-250: place_bet is called on the next new event; line 257 when
\* none is left.
MainPlace ==
  /\ pc[MAIN] = "m_place"
  /\ IF todo = << >>
       THEN /\ Sleep(MAIN, CYCLE_SLEEP)
            /\ pc' = [pc EXCEPT ![MAIN] = "m_sleep"]
            /\ UNCHANGED <<todo, event_info, sel_i, bets_placed, placed_events>>
       ELSE /\ event_info' = Head(todo)
            /\ todo' = Tail(todo)
            /\ sel_i' = 1
            /\ bets_placed' = << >>
            /\ placed_events' = placed_events \cup {Head(todo).event_id}
            /\ pc' = [pc EXCEPT ![MAIN] = "pb_next"]
            /\ UNCHANGED timer
  /\ UNCHANGED <<req, RATE_LIMIT_LOCK, since_last_call, attempt, backoff, result,
                 faulty_calls, boundvars, sharedvars, cycle, existing_event_ids,
                 feed, ev_i, events, bet_payload, next_ref, checks>>
  /\ UNCHANGED <<callhist, last_grant, sendhist, discovered, placehist, monhist>>

\* Lines 165-173: the payload of the bet on a selection, with a fresh uuid4.
Payload(info, selection, ref) ==
  [eventId |-> Str(info.event_id), side |-> selection.outcome,
   price |-> selection.price, referenceId |-> ref]

\* Lines 161-175: the next selection of the event is submitted; line 201 when
\* none is left (the locals of place_bet are gone then).
PlaceNext ==
  /\ pc[MAIN] = "pb_next"
  /\ IF sel_i > Len(event_info.selections)
       THEN /\ pc' = [pc EXCEPT ![MAIN] = "m_place"]
            /\ bets_placed' = << >>
            /\ event_info' = NoEvent
            /\ sel_i' = 1
            /\ pb_results' = << >>
            /\ pb_saves' = 0
            /\ UNCHANGED <<req, bet_payload, next_ref>>
       ELSE /\ next_ref <= MaxRefs
            /\ bet_payload' = Payload(event_info, event_info.selections[sel_i], next_ref)
            /\ next_ref' = next_ref + 1
            /\ StartRequest(MAIN, "place")
            /\ UNCHANGED <<bets_placed, event_info, sel_i, pb_results, pb_saves>>
  /\ UNCHANGED <<timer, RATE_LIMIT_LOCK, since_last_call, attempt, backoff, result,
                 faulty_calls, boundvars, sharedvars, cycle, existing_event_ids,
                 feed, ev_i, events, todo, checks>>
  /\ UNCHANGED <<callhist, last_grant, sendhist, cyclehist, monhist>>
  /\ UNCHANGED <<n_pending, n_submitted, n_entries, responded, failed_events>>

\* A store that records nothing.
NothingSaved(store, event_id) == store

\* save_event_id(event_id): events_ref.child(str(event_id)).set(...).
SaveEventId(store, event_id) == store \cup {Str(event_id)}

\* A loop that a failed submission ends.
AbortOnFailure(i, ok, n) == IF ok THEN i + 1 ELSE n + 1

\* Lines 161 and 176-178: the loop variable after a submission, failed
\* (continue) or not; n is the number of selections.
AfterSubmission(i, ok, n) == i + 1

\* A placement that monitors whatever the status.
AnyStatus(status) == TRUE

\* Line 192.
StartsMonitor(status) == status = "PENDING_ACCEPTANCE"

\* Lines 176-199: the answer to the submission of one selection.  Lines 193
\* and 199 (the entry, then the task) are taken as one step.
PlaceReply ==
  /\ Returned(MAIN, "place")
  /\ LET ok == result[MAIN].ok
         bet_response == result[MAIN].body
         ref == bet_response.referenceId
         pending == ok /\ StartsMonitor(bet_response.status)
     IN /\ bets_placed' = IF ok THEN Append(bets_placed, bet_response) ELSE bets_placed
        /\ events_ref' = IF ok THEN SaveEventId(events_ref, event_info.event_id)
                               ELSE events_ref
        /\ active_bets' = IF pending
                            THEN Put(active_bets, ref,
                                     [event |-> event_info.event_id,
                                      side |-> bet_payload.side])
                            ELSE active_bets
        /\ queue' = IF pending THEN Append(queue, ref) ELSE queue
        /\ pc' = IF pending
                   THEN [pc EXCEPT ![MAIN] = "pb_next", ![ref] = "queued"]
                   ELSE [pc EXCEPT ![MAIN] = "pb_next"]
        /\ sel_i' = AfterSubmission(sel_i, ok, Len(event_info.selections))
        /\ pb_results' = Append(pb_results,
                                [side |-> bet_payload.side, ok |-> ok,
                                 body |-> bet_response])
        /\ pb_saves' = IF ok THEN pb_saves + 1 ELSE pb_saves
        /\ n_pending' = IF ok /\ bet_response.status = "PENDING_ACCEPTANCE"
                          THEN n_pending + 1 ELSE n_pending
        /\ n_submitted' = n_submitted + Len(queue') - Len(queue)
        /\ n_entries' = n_entries + Cardinality(DOMAIN active_bets' \ DOMAIN active_bets)
        /\ responded' = IF ok THEN responded \cup {Str(event_info.event_id)}
                              ELSE responded
        /\ failed_events' = IF ok THEN failed_events
                                  ELSE failed_events \cup {Str(event_info.event_id)}
  /\ bet_payload' = NoPayload
  /\ req' = [req EXCEPT ![MAIN] = "none"]
  /\ Consume(MAIN)
  /\ UNCHANGED <<timer, RATE_LIMIT_LOCK, since_last_call, faulty_calls, boundvars,
                 running, cycle, existing_event_ids, feed, ev_i, events, todo,
                 event_info, next_ref, checks>>
  /\ UNCHANGED <<last_grant, sendhist, cyclehist, monhist>>

\* Line 257 is over: the next cycle.
MainWake ==
  /\ pc[MAIN] = "m_sleep"
  /\ timer[MAIN] = 0
  /\ pc' = [pc EXCEPT ![MAIN] = "m_start"]
  /\ UNCHANGED <<timer, req, RATE_LIMIT_LOCK, since_last_call, attempt, backoff,
                 result, faulty_calls, boundvars, sharedvars, mainvars, checks,
                 histvars>>

\* ------------------------------------------------------ specification
Next ==
  \/ Tick
  \/ \E t \in Threads : RLAcquire(t)
  \/ \E t \in Threads : RLRecord(t)
  \/ \E t \in Threads : SRSuccess(t)
  \/ \E t \in Threads : SRFailure(t)
  \/ \E t \in Threads : SRBackoffDone(t)
  \/ MainStartCycle
  \/ MainListReply
  \/ MainScan
  \/ MainMarketReply
  \/ MainPlace
  \/ PlaceNext
  \/ PlaceReply
  \/ MainWake
  \/ \E r \in Refs : MonStart(r)
  \/ \E r \in Refs : MonReply(r)
  \/ \E r \in Refs : MonSleepDone(r)

Spec == Init /\ [][Next]_vars

\* The main loop taken alone: the pool never gets to start a queued task.
NextMain ==
  \/ Tick
  \/ RLAcquire(MAIN)
  \/ RLRecord(MAIN)
  \/ SRSuccess(MAIN)
  \/ SRFailure(MAIN)
  \/ SRBackoffDone(MAIN)
  \/ MainStartCycle
  \/ MainListReply
  \/ MainScan
  \/ MainMarketReply
  \/ MainPlace
  \/ PlaceNext
  \/ PlaceReply
  \/ MainWake

\* Several poll cycles of the main loop.
InitLoop == Start(LoopCycles, FALSE)
SpecLoop == InitLoop /\ [][NextMain]_vars

\* Several poll cycles of the main loop, starting from an empty store.
InitStore == Start(LoopCycles, FALSE) /\ events_ref = {}
SpecStore == InitStore /\ [][NextMain]_vars

\* The bet of reference id r is on the event of store key (r + 1) \div 2: two
\* selections an event.
EventOf(r) == <<"int", (r + 1) \div 2>>
SideOf(r) == IF r % 2 = 1 THEN "odd" ELSE "even"

\* The monitors placed in an earlier cycle, and those placed in this one.
OldRefs == 1..(PoolRefs - 2)
NewRefs == Refs \ OldRefs

\* The pool taken alone, in a later cycle.  All PoolRefs bets were answered
\* PENDING_ACCEPTANCE (lines 192-199).  The tasks of the earlier cycle are
\* running: each has made max_checks checks, all answered by a non-terminal
\* status, and is in its last sleep (lines 229-230).  The tasks of this
\* cycle have just been submitted and none has been started yet; the main
\* loop is in its sleep at line 257.
InitPool ==
  /\ cycles_left = 0
  /\ observing = FALSE
  /\ pc = [t \in Threads |-> IF t = MAIN THEN "m_sleep"
                             ELSE IF t \in OldRefs THEN "mon_sleep" ELSE "queued"]
  /\ timer = [t \in Threads |-> IF t \in NewRefs THEN 0 ELSE SleepCap]
  /\ req = [t \in Threads |-> "none"]
  /\ RATE_LIMIT_LOCK = NoThread
  /\ since_last_call = 0                 \* the last placement was just granted
  /\ attempt = [t \in Threads |-> 0]
  /\ backoff = [t \in Threads |-> INITIAL_BACKOFF]
  /\ result = [t \in Threads |-> NoResult]
  /\ faulty_calls = 0
  /\ active_bets = [r \in Refs |-> [event |-> EventOf(r), side |-> SideOf(r)]]
  /\ queue = [i \in 1..Cardinality(NewRefs) |-> PoolRefs - Cardinality(NewRefs) + i]
  /\ running = OldRefs
  /\ events_ref = {Str(EventOf(r)) : r \in Refs}
  /\ cycle = 2
  /\ existing_event_ids = {Str(EventOf(r)) : r \in OldRefs}
  /\ feed = << >>
  /\ ev_i = 1
  /\ events = << >>
  /\ todo = << >>
  /\ event_info = NoEvent
  /\ sel_i = 1
  /\ bets_placed = << >>
  /\ bet_payload = NoPayload
  /\ next_ref = PoolRefs + 1
  /\ checks = [r \in Refs |-> IF r \in OldRefs THEN MaxChecks ELSE 0]
  /\ slots = [t \in Threads |-> 0]
  /\ sent = [t \in Threads |-> 0]
  /\ n429 = [t \in Threads |-> 0]
  /\ waited = [t \in Threads |-> 0]
  /\ last_grant = [gap |-> MIN_INTERVAL, slept |-> TRUE]
  /\ since_last_send = 0
  /\ last_send = [gap |-> MIN_INTERVAL, retry |-> FALSE]
  /\ discovered = {EventOf(r) : r \in NewRefs}
  /\ placed_events = {EventOf(r) : r \in NewRefs}
  /\ pb_results = << >>
  /\ pb_saves = 0
  /\ n_pending = PoolRefs
  /\ n_submitted = PoolRefs
  /\ n_entries = PoolRefs
  /\ responded = {Str(EventOf(r)) : r \in Refs}
  /\ failed_events = {}
  /\ terminal_at = [r \in Refs |-> 0]
  /\ queries = [r \in Refs |-> IF r \in OldRefs THEN MaxChecks ELSE 0]
  /\ failed_queries = [r \in Refs |-> 0]
  /\ pops = [r \in Refs |-> 0]
  /\ ending = [r \in Refs |-> ""]

\* The steps of the pool's tasks while the main loop sleeps, every attempt
\* of a status request being answered.
NextPool ==
  \/ Tick
  \/ \E r \in Refs : RLAcquire(r)
  \/ \E r \in Refs : RLRecord(r)
  \/ \E r \in Refs : SRSuccess(r)
  \/ \E r \in Refs : MonStart(r)
  \/ \E r \in Refs : MonReply(r)
  \/ \E r \in Refs : MonSleepDone(r)

\* Time passes, the pool starts a task it has a worker for, every thread
\* that can take a step is scheduled in the end, and the endpoint answers.
FairPool ==
  /\ WF_vars(Tick)
  /\ \A r \in Refs :
       /\ WF_vars(MonStart(r))
       /\ WF_vars(RLAcquire(r))
       /\ WF_vars(RLRecord(r))
       /\ WF_vars(SRSuccess(r))
       /\ WF_vars(MonReply(r))
       /\ WF_vars(MonSleepDone(r))

SpecPool == InitPool /\ [][NextPool]_vars /\ FairPool

\* One poll cycle of the main loop, the waits of safe_request measured.
InitExec == Start(MaxCycles, TRUE)
SpecExec == InitExec /\ [][NextMain]_vars


\* ------------------------------------------------------------ properties
\* C1: whenever a caller records a new grant in LAST_CALL_TIME, at least
\* MIN_INTERVAL has elapsed since the previously recorded grant, whichever
\* threads (main loop, monitor tasks) are calling concurrently.
GrantsSeparated == last_grant.gap >= MIN_INTERVAL

\* A grant recorded after the limiter's sleep, while another thread is
\* waiting for the lock.
GrantsSeparatedWitness ==
  /\ last_grant.slept
  /\ \E t, u \in Threads :
       /\ t # u
       /\ pc[t] = "sr_send" /\ slots[t] = 1
       /\ pc[u] = "rl_wait"

\* C2: any two HTTP attempts (first attempts and retries, of any thread)
\* start at least MIN_INTERVAL apart.
AttemptsSeparated == last_send.gap >= MIN_INTERVAL

\* C3: the grants a call takes from the limiter are as many as the HTTP
\* attempts it makes: a request retried k times acquires the limiter k + 1
\* times.
EveryAttemptTakesASlot ==
  \A t \in Threads : sent[t] > 0 => slots[t] = sent[t]

\* C4: safe_request ends after at most 8 HTTP attempts; it returns the
\* response of the first attempt that succeeds, and None exactly when all 8
\* attempts failed (attempt counts the failed attempts of the call).
AttemptBudget ==
  \A t \in Threads :
    /\ sent[t] <= ATTEMPTS
    /\ pc[t] = "ret" =>
         IF result[t].ok
           THEN sent[t] = attempt[t] + 1
           ELSE sent[t] = ATTEMPTS /\ attempt[t] = ATTEMPTS /\ result[t] = NoResult

\* All 8 attempts failed and None is returned.
AttemptBudgetWitness ==
  pc[MAIN] = "ret" /\ ~result[MAIN].ok /\ sent[MAIN] = ATTEMPTS

RECURSIVE FirstBackoffs(_)
\* The sum of the first k backoff values 5, 10, 20, ...
FirstBackoffs(k) == IF k = 0 THEN 0 ELSE INITIAL_BACKOFF * 2 ^ (k - 1) + FirstBackoffs(k - 1)

\* C5: when the endpoint answers 429 exactly K times (K < 8) and then
\* succeeds, safe_request returns the success, having waited at least the
\* sum of the first K backoff values.
WaitedTheBackoffs ==
  \A t \in Threads :
    (pc[t] = "ret" /\ result[t].ok /\ n429[t] = attempt[t]) =>
      waited[t] >= FirstBackoffs(n429[t])

\* The success comes after seven answers 429.
WaitedTheBackoffsWitness ==
  /\ pc[MAIN] = "ret" /\ result[MAIN].ok
  /\ n429[MAIN] = ATTEMPTS - 1 /\ attempt[MAIN] = ATTEMPTS - 1

\* The monitor of r saw only non-terminal statuses, then a terminal one.
ResolvedAfterPending(r) == terminal_at[r] > 0 /\ failed_queries[r] = 0

\* C6: when the status endpoint answers PENDING to the first M checks
\* (M < max_checks) and then WIN, monitor_bet removes the entry of the
\* reference id exactly once, after exactly M + 1 queries, and makes no
\* query afterwards.
ResolvedOnce ==
  \A r \in Refs :
    ResolvedAfterPending(r) =>
      /\ terminal_at[r] <= MaxChecks
      /\ queries[r] = terminal_at[r]
      /\ pops[r] = 1
      /\ r \notin DOMAIN active_bets
      /\ pc[r] = "done" /\ ending[r] = "WIN"

\* WIN is the answer to the second check, after one PENDING.
ResolvedOnceWitness ==
  \E r \in Refs : ResolvedAfterPending(r) /\ terminal_at[r] = 2 /\ ending[r] = "WIN"

\* C7: a monitor never makes more than max_checks queries, whatever the mix
\* of failed and non-terminal answers; when no query yields a terminal
\* status it makes exactly max_checks queries, removes the entry and never
\* polls again.
CheckBudget ==
  \A r \in Refs :
    /\ queries[r] <= MaxChecks
    /\ ending[r] = "timeout" =>
         /\ queries[r] = MaxChecks
         /\ terminal_at[r] = 0
         /\ pops[r] = 1
         /\ r \notin DOMAIN active_bets
         /\ pc[r] = "done"
    /\ (pc[r] = "done" /\ terminal_at[r] = 0) => ending[r] = "timeout"

\* A monitor times out after a failed query and a non-terminal answer.
CheckBudgetWitness ==
  \E r \in Refs :
    ending[r] = "timeout" /\ failed_queries[r] = 1 /\ queries[r] = MaxChecks

\* The pool holds a task for r: submitted and not yet ended.
ActiveTask(r) == pc[r] \notin {"unborn", "done", "crashed"}

\* C8: a reference id has an entry in active_bets if and only if there is
\* an active monitoring task for it.
EntryIffTask ==
  \A r \in Refs : r \in DOMAIN active_bets <=> ActiveTask(r)

\* C9: place_bet is never invoked in a cycle for an event whose identifier
\* is in the seen-set read at the start of that cycle.
SeenNeverPlaced ==
  \A e \in placed_events : Str(e) \notin existing_event_ids

\* In the second cycle discovery returns an event that is in the seen-set
\* and place_bet is invoked for another one.
SeenNeverPlacedWitness ==
  /\ cycle = LoopCycles
  /\ \E e \in discovered : Str(e) \in existing_event_ids
  /\ placed_events # {}

\* C10: every bet request posted by place_bet carries a price strictly
\* greater than the threshold, and every event passed to place_bet has a
\* selection, all of its selections being above the threshold.
OnlyAboveThreshold ==
  /\ req[MAIN] = "place" => bet_payload.price > THRESHOLD
  /\ (pc[MAIN] = "pb_next" \/ req[MAIN] = "place") =>
       /\ event_info.selections # << >>
       /\ \A i \in DOMAIN event_info.selections :
            event_info.selections[i].price > THRESHOLD
  /\ \A k \in DOMAIN todo :
       /\ todo[k].selections # << >>
       /\ \A i \in DOMAIN todo[k].selections : todo[k].selections[i].price > THRESHOLD

\* A bet is being posted for an event whose market had one selection at the
\* threshold, which discovery dropped.
OnlyAboveThresholdWitness ==
  /\ req[MAIN] = "place" /\ pc[MAIN] = "sr_send"
  /\ Len(event_info.selections) = 1


\* The responses of the submissions that succeeded, in order.
Succeeded(results) ==
  LET IsOk(x) == x.ok
      oks == SelectSeq(results, IsOk)
  IN [i \in 1..Len(oks) |-> oks[i].body]

\* C11: within one place_bet call a submission is made for every selection
\* of the event, in order, whatever the outcome of the others (the call
\* returns only when the loop is past the last selection), and the list
\* returned holds exactly the responses of the submissions that succeeded.
SubmissionsIsolated ==
  (pc[MAIN] = "pb_next" \/ req[MAIN] = "place") =>
    /\ Len(pb_results) = sel_i - 1
    /\ sel_i <= Len(event_info.selections) + 1
    /\ \A i \in DOMAIN pb_results :
         pb_results[i].side = event_info.selections[i].outcome
    /\ bets_placed = Succeeded(pb_results)

\* place_bet is about to return: the first of two submissions failed and
\* the second succeeded.
SubmissionsIsolatedWitness ==
  /\ pc[MAIN] = "pb_next"
  /\ sel_i > Len(event_info.selections)
  /\ Len(pb_results) = 2
  /\ ~pb_results[1].ok /\ pb_results[2].ok
  /\ Len(bets_placed) = 1


\* The monitor tasks ever submitted to the pool.
Submitted == {r \in Refs : pc[r] # "unborn"}

\* C12: a monitor task is submitted, and an entry added to active_bets, for
\* a placement response exactly when its status is PENDING_ACCEPTANCE: the
\* tasks submitted and the entries added are as many as the responses with
\* that status, and no other response or failed submission adds one.
MonitorIffPending ==
  /\ n_submitted = n_pending
  /\ n_entries = n_pending
  /\ Cardinality(Submitted) = n_pending
  /\ DOMAIN active_bets \subseteq Submitted

\* One place_bet call got PENDING_ACCEPTANCE for its first selection and
\* ACCEPTED for its second: one task and one entry.
MonitorIffPendingWitness ==
  /\ Len(pb_results) = 2
  /\ pb_results[1].ok /\ pb_results[1].body.status = "PENDING_ACCEPTANCE"
  /\ pb_results[2].ok /\ pb_results[2].body.status = "ACCEPTED"
  /\ n_submitted = 1 /\ n_entries = 1


\* C13: during one place_bet call on an event, save_event_id is performed at
\* most once for that event, whatever the number of selections whose
\* submission succeeds.
SavedAtMostOnce == pb_saves <= 1


\* C14: no error escapes a monitor task: a task ends only by observing a
\* terminal status or by exhausting its budget of checks.
NoErrorEscapes ==
  \A r \in Refs :
    /\ pc[r] # "crashed"
    /\ ending[r] \in {""} \cup terminal_states \cup {"timeout"}


\* The main loop wants the limiter's lock while a monitor task holds it,
\* sleeping out its interval at line 60.
MainBlockedByMonitor ==
  /\ pc[MAIN] = "rl_wait"
  /\ RATE_LIMIT_LOCK \in Refs
  /\ pc[RATE_LIMIT_LOCK] = "rl_sleep" /\ timer[RATE_LIMIT_LOCK] > 0

\* C15: monitor tasks never block the primary loop: in no state is the main
\* loop kept from going on with a request because a monitor task holds the
\* rate limiter's lock while it waits out its interval.
MonitorsNeverBlockMain == ~MainBlockedByMonitor


\* The backoff of the wait after the i-th failed attempt, i = 0..7.
Scheduled(i) == Min(INITIAL_BACKOFF * 2 ^ i, max_backoff)

\* C17: within one safe_request call the backoff used for the wait after the
\* i-th failed attempt is min(5 * 2^i, 600), whether the failures were 429
\* answers or other errors; it never exceeds 600 and every call starts again
\* at 5.
BackoffSchedule ==
  \A t \in Threads :
    /\ backoff[t] <= max_backoff
    /\ pc[t] \in {"sr_send", "sr_backoff"} => backoff[t] = Scheduled(attempt[t])
    /\ (pc[t] = "sr_send" /\ sent[t] = 0) => backoff[t] = INITIAL_BACKOFF

\* The wait after the last failed attempt, capped, after a mix of 429
\* answers and other errors.
BackoffScheduleWitness ==
  /\ pc[MAIN] = "sr_backoff"
  /\ attempt[MAIN] = ATTEMPTS - 1
  /\ backoff[MAIN] = max_backoff
  /\ n429[MAIN] > 0 /\ n429[MAIN] < sent[MAIN]

\* Thread t is inside safe_request, or back from it.
InSafeRequest(t) == pc[t] \in {"sr_send", "sr_backoff", "ret"}

\* C20: the limiter's lock is held only while its holder waits for and
\* records its grant, never during an HTTP attempt or a backoff wait: while
\* a thread is inside safe_request the lock is free or held by another
\* thread.
LockOnlyForGrant ==
  \A t \in Threads :
    /\ InSafeRequest(t) => RATE_LIMIT_LOCK # t
    /\ RATE_LIMIT_LOCK = t => pc[t] = "rl_sleep"

\* A thread is backing off and another one holds the lock for its grant.
LockOnlyForGrantWitness ==
  \E t, u \in Threads :
    /\ t # u
    /\ pc[t] = "sr_backoff" /\ timer[t] > 0
    /\ RATE_LIMIT_LOCK = u


\* C19: starting from an empty store, an event identifier is in the store
\* if and only if a bet submission for that event returned a response; the
\* seen-set of a cycle holds only such events, and no event of the seen-set
\* is submitted again, while an event whose submissions all failed stays
\* out of the store.
StoredIffResponded ==
  /\ events_ref = responded
  /\ existing_event_ids \subseteq responded
  /\ \A k \in failed_events \ responded : k \notin events_ref
  /\ (pc[MAIN] = "pb_next" \/ req[MAIN] = "place") =>
       Str(event_info.event_id) \notin existing_event_ids

\* In the second cycle place_bet is invoked again for an event whose only
\* submission failed in the first.
StoredIffRespondedWitness ==
  /\ cycle = LoopCycles
  /\ \E e \in placed_events : Str(e) \in failed_events \ responded
  /\ req[MAIN] = "place"

\* One selection of an event was accepted and the other failed: the event
\* is stored, and the second cycle has passed it over.
RecordedDespiteFailure ==
  /\ cycle = LoopCycles /\ pc[MAIN] = "m_sleep"
  /\ \E e \in discovered :
       /\ Str(e) \in failed_events \cap responded
       /\ Str(e) \in existing_event_ids


\* A queued task has done nothing yet.
Idle(r) == r \notin running /\ queries[r] = 0 /\ slots[r] = 0 /\ sent[r] = 0

\* A task queued while the pool is saturated is still queued after the step.
WaitsForWorker(r) ==
  (pc[r] = "queued" /\ Cardinality(running) = max_workers) => pc'[r] = "queued"

\* C16: at most 5 monitor tasks run at any time; a task submitted while 5 are
\* running is queued and issues no status query until a running task ends;
\* every submitted task is started in the end.
PoolBounded ==
  /\ [](Cardinality(running) <= max_workers)
  /\ [](\A r \in Refs : pc[r] = "queued" => Idle(r))
  /\ [][\A r \in Refs : WaitsForWorker(r)]_vars
  /\ \A r \in Refs : (pc[r] = "queued") ~> (pc[r] # "queued")

\* The last task runs with four others: it got the worker of a task that
\* ended while the pool was saturated.
PoolBoundedWitness ==
  /\ PoolRefs \in running
  /\ Cardinality(running) = max_workers
  /\ queries[PoolRefs] > 0

\* C18: every entry added to active_bets is eventually removed, under fair
\* scheduling and whatever the status endpoint answers.
EntriesEventuallyRemoved ==
  \A r \in Refs : (r \in DOMAIN active_bets) ~> (r \notin DOMAIN active_bets)

=============================================================================
